---------------------------- MODULE Spec2Model ----------------------------
(***************************************************************************)
(* The L-system interpreter of tree.py (class LSystem): exec, evalRule,    *)
(* evalInstruction, evalCondition, evalSum and the turtle functions.       *)
(*                                                                         *)
(* Numbers.  Python floats are modelled as fixed-point integers counting   *)
(* quarters (float("0.5") is 2, float("1") is 4); every literal and every  *)
(* intermediate value of the modelled programs is exact in that format.    *)
(*                                                                         *)
(* Orientation.  With R the rotation matrix of turtleQuat, the axis of     *)
(* pitch is R^-1 x, and turtleQuat @ Quaternion(R^-1 x, a) has the matrix  *)
(* R (R^-1 Rx(a) R) = Rx(a) R; the forward direction R^-1 z is the third   *)
(* row of R.  turtleQuat is modelled by that matrix; the modelled programs *)
(* turn by multiples of 90 degrees, so its entries stay in {-1, 0, 1}.     *)
(*                                                                         *)
(* Control.  The Python call stack of evalRule activations is the variable *)
(* stack: one frame per activation, holding the activation's context and   *)
(* the instructions it has still to execute.  One step of the model        *)
(* executes one instruction.                                               *)
(***************************************************************************)
EXTENDS Integers, Sequences, FiniteSets, TLC

VARIABLES
    prog,                \* the program text the LSystem was built from
    turtlePos,           \* self.turtlePos
    turtleQuat,          \* self.turtleQuat (as its rotation matrix)
    vertices,            \* self.vertices: sequence of <<position, radius>>
    currentVertexIndex,  \* self.currentVertexIndex (0-based, as in Python)
    edges,               \* self.edges: sequence of <<from, to>> (0-based)
    leaves,              \* self.leaves: sequence of <<position, radius>>
    turtleQueue,         \* self.turtleQueue: the branch stack
    stack,               \* call stack of evalRule activations
    pc,                  \* position of exec: idle, axiom, eval, post, mesh, done, raised
    exc,                 \* the exception that left exec, or "none"
    meshed,              \* createMesh was invoked by the current exec
    runs,                \* number of exec calls made on the object
    prev,                \* outcome of the previous exec call
    hist                 \* the last two instructions executed, with the states before them

vars == <<prog, turtlePos, turtleQuat, vertices, currentVertexIndex, edges,
          leaves, turtleQueue, stack, pc, exc, meshed, runs, prev, hist>>

-----------------------------------------------------------------------------
(* Bounds *)

MaxBody == 3     \* instructions in the body of rule main
MaxDepth == 2    \* largest recursion counter d passed by the axiom
MaxRuns == 2     \* exec calls on one LSystem object

-----------------------------------------------------------------------------
(* Numbers: float(token) and float arithmetic *)

float(tok) ==
    CASE tok = "0"    -> 0
      [] tok = "0.25" -> 1
      [] tok = "0.5"  -> 2
      [] tok = "0.75" -> 3
      [] tok = "1"    -> 4
      [] tok = "2"    -> 8
      [] tok = "3"    -> 12
      [] tok = "90"   -> 360

One == float("1")

FMul(a, b) == (a * b) \div One
FDiv(a, b) == (a * One) \div b

\* random(): a float in [0, 1)
RandomValues == {float("0"), float("0.75")}

-----------------------------------------------------------------------------
(* mathutils: Vector and the rotation matrix of a Quaternion *)

Vector(x, y, z) == <<x, y, z>>
VAdd(u, v) == <<u[1] + v[1], u[2] + v[2], u[3] + v[3]>>
VScale(u, k) == <<u[1] * k, u[2] * k, u[3] * k>>

\* Quaternion(): the identity rotation
Quaternion == << <<1, 0, 0>>, <<0, 1, 0>>, <<0, 0, 1>> >>

MatMul(A, B) ==
    [i \in 1..3 |-> [j \in 1..3 |-> A[i][1] * B[1][j] + A[i][2] * B[2][j] + A[i][3] * B[3][j]]]

\* math.radians(angle), in quarter turns (angle is a multiple of 90 degrees)
QuarterTurns(angle) == (angle \div float("90")) % 4
Cos(angle) == LET q == QuarterTurns(angle) IN IF q = 0 THEN 1 ELSE IF q = 2 THEN -1 ELSE 0
Sin(angle) == LET q == QuarterTurns(angle) IN IF q = 1 THEN 1 ELSE IF q = 3 THEN -1 ELSE 0

RotX(angle) == << <<1, 0, 0>>, <<0, Cos(angle), -Sin(angle)>>, <<0, Sin(angle), Cos(angle)>> >>
RotZ(angle) == << <<Cos(angle), -Sin(angle), 0>>, <<Sin(angle), Cos(angle), 0>>, <<0, 0, 1>> >>

\* turtleQuat.inverted().to_matrix() @ Vector((0, 0, 1))
Forward(quat) == Vector(quat[3][1], quat[3][2], quat[3][3])

-----------------------------------------------------------------------------
(* Parse trees, as lark builds them: Tree(data, children); tokens are strings *)

Tree(data, children) == [data |-> data, children |-> children]

Number(tok) == Tree("number", <<tok>>)
Var(name) == Tree("var", <<name>>)
RuleCall(name, args) == Tree("rule_call", <<name>> \o args)
RuleCallInst(name, args) == Tree("rule_call_inst", <<RuleCall(name, args)>>)
CreateBranchInst(length, radius) == Tree("create_branch", <<length, radius>>)
CreateLeafInst(length, radius) == Tree("create_leaf", <<length, radius>>)
RuleBody(insts) == Tree("rule_body", insts)
Rule(name, params, insts) ==
    Tree("rule", <<name, Tree("rule_arguments", params), RuleBody(insts)>>)

\* The instructions the body of rule main(d, l) is drawn from
InstructionIds == 1..12

Instruction(k) ==
    CASE k = 1  -> \* ^(l, d/2)
                   CreateBranchInst(Var("l"), Tree("div", <<Var("d"), Number("2")>>))
      [] k = 2  -> \* '(l*0.5, 0.5)
                   CreateLeafInst(Tree("mul", <<Var("l"), Number("0.5")>>), Number("0.5"))
      [] k = 3  -> \* $(90)
                   Tree("pitch_inst", <<Number("90")>>)
      [] k = 4  -> \* %(-90)
                   Tree("roll_inst", <<Tree("neg", <<Number("90")>>)>>)
      [] k = 5  -> \* [
                   Tree("push_inst", <<>>)
      [] k = 6  -> \* ]
                   Tree("pop_inst", <<>>)
      [] k = 7  -> \* branch(d-1, l)
                   RuleCallInst("branch", <<Tree("sub", <<Var("d"), Number("1")>>), Var("l")>>)
      [] k = 8  -> \* if d > 1: ^(l+1, 1);
                   Tree("cond_inst",
                        <<Tree("gt", <<Var("d"), Number("1")>>),
                          RuleBody(<<CreateBranchInst(Tree("add", <<Var("l"), Number("1")>>),
                                                      Number("1"))>>)>>)
      [] k = 9  -> \* nosuch(d)
                   RuleCallInst("nosuch", <<Var("d")>>)
      [] k = 10 -> \* branch(d)
                   RuleCallInst("branch", <<Var("d")>>)
      [] k = 11 -> \* scope(d)
                   RuleCallInst("scope", <<Var("d")>>)
      [] k = 12 -> \* ^(l~1, 1)
                   CreateBranchInst(Tree("noise", <<Var("l"), Number("1")>>), Number("1"))

RECURSIVE Instructions(_)
Instructions(ks) ==
    IF ks = <<>> THEN <<>> ELSE <<Instruction(Head(ks))>> \o Instructions(Tail(ks))

\* The axioms a program starts from
AxiomKinds == {"init", "main", "arity", "unknown", "unbound",
               "conds", "noisy", "swap", "span", "nottaken", "keyfirst", "arityfirst"}

DepthTok(d) == CASE d = 1 -> "1" [] d = 2 -> "2" [] d = 3 -> "3"

Axiom(p) ==
    CASE p.axiom = "init"    -> RuleCall("init", <<>>)
      [] p.axiom = "main"    -> RuleCall("main", <<Number(DepthTok(p.d)), Number("1")>>)
      [] p.axiom = "arity"   -> RuleCall("main", <<Number("1")>>)
      [] p.axiom = "unknown" -> RuleCall("nosuch", <<>>)
      [] p.axiom = "unbound" -> RuleCall("main", <<Var("x"), Number("1")>>)
      [] p.axiom = "conds"   -> RuleCall("conds", <<Number("2")>>)
      [] p.axiom = "noisy"   -> RuleCall("noisy", <<>>)
      [] p.axiom = "swap"    -> RuleCall("caller", <<Number("2"), Number("1")>>)
      [] p.axiom = "span"    -> RuleCall("spanouter", <<>>)
      [] p.axiom = "nottaken"   -> RuleCall("nottaken", <<>>)
      [] p.axiom = "keyfirst"   -> RuleCall("keyfirst", <<>>)
      [] p.axiom = "arityfirst" -> RuleCall("arityfirst", <<>>)

\* The rule definitions of the program text
RuleInit ==
    \* init(): ^(2,1)^(3,0.5);
    Rule("init", <<>>, <<CreateBranchInst(Number("2"), Number("1")),
                         CreateBranchInst(Number("3"), Number("0.5"))>>)

\* faulty variant: the recursive call passes the counter on undiminished
RuleBranchNoDecrement ==
    Rule("branch", <<"d", "l">>,
         <<Tree("cond_inst",
                <<Tree("gt", <<Var("d"), Number("0")>>),
                  RuleBody(<<Tree("push_inst", <<>>),
                             Tree("pitch_inst", <<Number("90")>>),
                             CreateBranchInst(Var("l"), Number("0.5")),
                             RuleCallInst("branch", <<Var("d"), Var("l")>>),
                             Tree("pop_inst", <<>>),
                             Tree("roll_inst", <<Number("90")>>)>>),
                  RuleBody(<<CreateLeafInst(Number("0"), Number("0.5"))>>)>>)>>)

RuleBranch ==
    \* branch(d, l): if d > 0: [$(90)^(l, 0.5)branch(d-1, l)]%(90) else: '(0, 0.5);;
    Rule("branch", <<"d", "l">>,
         <<Tree("cond_inst",
                <<Tree("gt", <<Var("d"), Number("0")>>),
                  RuleBody(<<Tree("push_inst", <<>>),
                             Tree("pitch_inst", <<Number("90")>>),
                             CreateBranchInst(Var("l"), Number("0.5")),
                             RuleCallInst("branch",
                                 <<Tree("sub", <<Var("d"), Number("1")>>), Var("l")>>),
                             Tree("pop_inst", <<>>),
                             Tree("roll_inst", <<Number("90")>>)>>),
                  RuleBody(<<CreateLeafInst(Number("0"), Number("0.5"))>>)>>)>>)

RuleScope ==
    \* scope(a): ^(l, a);      (l is a parameter of the caller, not of scope)
    Rule("scope", <<"a">>, <<CreateBranchInst(Var("l"), Var("a"))>>)

Push == Tree("push_inst", <<>>)
Pop == Tree("pop_inst", <<>>)
Cond(test, thenBody) == Tree("cond_inst", <<test, RuleBody(thenBody)>>)
CondElse(test, thenBody, elseBody) ==
    Tree("cond_inst", <<test, RuleBody(thenBody), RuleBody(elseBody)>>)
Gt(a, b) == Tree("gt", <<a, b>>)

RuleConds ==
    \* conds(d): if 1>0: ^(1,1) else: ^(2,2);  if 0>1: ^(1,1) else: ^(2,2);
    \*           if 0>1: ^(3,1);  if d>0: ^(d,d);;
    Rule("conds", <<"d">>,
         <<CondElse(Gt(Number("1"), Number("0")),
                    <<CreateBranchInst(Number("1"), Number("1"))>>,
                    <<CreateBranchInst(Number("2"), Number("2"))>>),
           CondElse(Gt(Number("0"), Number("1")),
                    <<CreateBranchInst(Number("1"), Number("1"))>>,
                    <<CreateBranchInst(Number("2"), Number("2"))>>),
           Cond(Gt(Number("0"), Number("1")),
                <<CreateBranchInst(Number("3"), Number("1"))>>),
           Cond(Gt(Var("d"), Number("0")),
                <<CreateBranchInst(Var("d"), Var("d"))>>)>>)

RuleNoisy ==
    \* noisy(): ^(2~1, 1) ^(2~-1, 1) ^(2~0, 1);
    Rule("noisy", <<>>,
         <<CreateBranchInst(Tree("noise", <<Number("2"), Number("1")>>), Number("1")),
           CreateBranchInst(Tree("noise", <<Number("2"), Tree("neg", <<Number("1")>>)>>),
                            Number("1")),
           CreateBranchInst(Tree("noise", <<Number("2"), Number("0")>>), Number("1"))>>)

RuleCaller ==
    \* caller(d, w): f(w, d) f(d-1, d) ^(d, w);
    Rule("caller", <<"d", "w">>,
         <<RuleCallInst("f", <<Var("w"), Var("d")>>),
           RuleCallInst("f", <<Tree("sub", <<Var("d"), Number("1")>>), Var("d")>>),
           CreateBranchInst(Var("d"), Var("w"))>>)

RuleF ==
    \* f(d, w): ^(d, w);
    Rule("f", <<"d", "w">>, <<CreateBranchInst(Var("d"), Var("w"))>>)

RuleSpanOuter ==
    \* spanouter(): [ ^(1,1) spaninner() ^(1,1) ];
    Rule("spanouter", <<>>,
         <<Push, CreateBranchInst(Number("1"), Number("1")), RuleCallInst("spaninner", <<>>),
           CreateBranchInst(Number("1"), Number("1")), Pop>>)

RuleSpanInner ==
    \* spaninner(): $(90) [ ^(2,1) ] ] ^(2,1) [ %(90);
    Rule("spaninner", <<>>,
         <<Tree("pitch_inst", <<Number("90")>>), Push,
           CreateBranchInst(Number("2"), Number("1")), Pop, Pop,
           CreateBranchInst(Number("2"), Number("1")), Push,
           Tree("roll_inst", <<Number("90")>>)>>)

RuleNotTaken ==
    \* nottaken(): if 0>1: nosuch(); if 1>0: ^(1,1) else: branch(1); ^(1,1);
    Rule("nottaken", <<>>,
         <<Cond(Gt(Number("0"), Number("1")), <<RuleCallInst("nosuch", <<>>)>>),
           CondElse(Gt(Number("1"), Number("0")),
                    <<CreateBranchInst(Number("1"), Number("1"))>>,
                    <<RuleCallInst("branch", <<Number("1")>>)>>),
           CreateBranchInst(Number("1"), Number("1"))>>)

RuleKeyFirst ==
    \* keyfirst(): ^(1,1) nosuch(x);
    Rule("keyfirst", <<>>,
         <<CreateBranchInst(Number("1"), Number("1")), RuleCallInst("nosuch", <<Var("x")>>)>>)

RuleArityFirst ==
    \* arityfirst(): ^(1,1) branch(x);
    Rule("arityfirst", <<>>,
         <<CreateBranchInst(Number("1"), Number("1")), RuleCallInst("branch", <<Var("x")>>)>>)

\* the rules a program text holds besides init, main, branch and scope
ExtraRules(p) ==
    CASE p.axiom = "conds"      -> <<RuleConds>>
      [] p.axiom = "noisy"      -> <<RuleNoisy>>
      [] p.axiom = "swap"       -> <<RuleCaller, RuleF>>
      [] p.axiom = "span"       -> <<RuleSpanOuter, RuleSpanInner>>
      [] p.axiom = "nottaken"   -> <<RuleNotTaken>>
      [] p.axiom = "keyfirst"   -> <<RuleKeyFirst>>
      [] p.axiom = "arityfirst" -> <<RuleArityFirst>>
      [] OTHER -> <<>>

\* parser.parse(text): the rule_set tree of the program p
ParseTree(p) ==
    Tree("rule_set",
         <<"False", Axiom(p), RuleInit,
           Rule("main", <<"d", "l">>, Instructions(p.body)), RuleBranch, RuleScope>>
         \o ExtraRules(p))

\* The children of a parse tree that are trees (the others are tokens)
SubTrees(node) ==
    CASE node.data \in {"number", "var", "rule_arguments"} -> {}
      [] node.data \in {"rule_call", "rule", "rule_set"} -> 2..Len(node.children)
      [] OTHER -> 1..Len(node.children)

\* Number of noise nodes in a parse tree
RECURSIVE NoiseCount(_)
NoiseCount(node) ==
    LET RECURSIVE Sum(_)
        Sum(S) == IF S = {} THEN 0
                  ELSE LET i == CHOOSE i \in S : TRUE
                       IN NoiseCount(node.children[i]) + Sum(S \ {i})
    IN (IF node.data = "noise" THEN 1 ELSE 0) + Sum(SubTrees(node))

\* The programs the model runs
\* (an instruction that raises whenever it is executed is the last of its body:
\* what follows it would never be executed)
AlwaysRaises == {9, 10, 11}

BodySeqs ==
    {b \in UNION {[1..n -> InstructionIds] : n \in 1..MaxBody} :
        \A i \in 1..(Len(b) - 1) : b[i] \notin AlwaysRaises}

Programs ==
    {[axiom |-> "main", d |-> d, body |-> b] : d \in 1..MaxDepth, b \in BodySeqs}
    \cup {[axiom |-> a, d |-> 1, body |-> <<1>>] : a \in AxiomKinds \ {"main"}}

-----------------------------------------------------------------------------
(* LSystem.__init__ *)

useLoose(p) == ParseTree(p).children[1] = "True"

\* self.axiom of the object p
axiom(p) == p.selfAxiom

\* self.rules: rule name -> <<parameter names, body instructions>>
RECURSIVE BuildRules(_, _)
BuildRules(children, acc) ==
    IF children = <<>> THEN acc
    ELSE LET c == Head(children)
             ruleName == c.children[1]
             arguments == c.children[2]
             body == c.children[3]
         IN BuildRules(Tail(children),
                       [n \in DOMAIN acc \cup {ruleName} |->
                           IF n = ruleName THEN <<arguments.children, body.children>>
                           ELSE acc[n]])

EmptyDict == [n \in {} |-> 0]

\* self.rules of the object p
rules(p) == p.selfRules

\* LSystem(text): the object __init__ builds from a program text; besides the
\* text it holds self.axiom = tree.children[1] and self.rules, filled by the
\* loop over tree.children[2:]
LSystem(text) ==
    [axiom |-> text.axiom, d |-> text.d, body |-> text.body,
     selfAxiom |-> ParseTree(text).children[2],
     selfRules |-> BuildRules(SubSeq(ParseTree(text).children, 3,
                                     Len(ParseTree(text).children)), EmptyDict)]

-----------------------------------------------------------------------------
(* evalSum and evalCondition.  A result is [exc, v, rs]: the exception      *)
(* raised or "none", the value, and the random() values not yet consumed.  *)

Value(v, rs) == [exc |-> "none", v |-> v, rs |-> rs]
Raised(e) == [exc |-> e, v |-> 0, rs |-> <<>>]

VariableNotDefined == "variable not defined"
WrongNumberOfArguments == "wrong number of arguments"
KeyError == "KeyError"
ZeroDivisionError == "ZeroDivisionError"
PopFromEmptyList == "IndexError: pop from empty list"
ListIndexOutOfRange == "IndexError: list index out of range"

\* faulty variant: the random value is doubled but not shifted
RandomFactorUnshifted(r) == FMul(r, float("2"))

\* random()*2.0 - 1.0, r being the value random() returned
RandomFactor(r) == FMul(r, float("2")) - float("1")

\* base + spread*(random()*2.0 - 1.0)
Noise(base, spread, r) == base + FMul(spread, RandomFactor(r))

RECURSIVE evalSum(_, _, _)
evalSum(node, ctx, rs) ==
    IF node.data \in {"add", "sub", "mul", "div", "noise"} THEN
        LET a == evalSum(node.children[1], ctx, rs)
        IN  IF a.exc # "none" THEN a
            ELSE LET b == evalSum(node.children[2], ctx, a.rs)
                 IN  IF b.exc # "none" THEN b
                     ELSE CASE node.data = "add" -> Value(a.v + b.v, b.rs)
                            [] node.data = "sub" -> Value(a.v - b.v, b.rs)
                            [] node.data = "mul" -> Value(FMul(a.v, b.v), b.rs)
                            [] node.data = "div" ->
                                 IF b.v = 0 THEN Raised(ZeroDivisionError)
                                 ELSE Value(FDiv(a.v, b.v), b.rs)
                            [] node.data = "noise" ->
                                 Value(Noise(a.v, b.v, Head(b.rs)), Tail(b.rs))
    ELSE IF node.data = "number" THEN Value(float(node.children[1]), rs)
    ELSE IF node.data = "neg" THEN
        LET a == evalSum(node.children[1], ctx, rs)
        IN  IF a.exc # "none" THEN a ELSE Value(-a.v, a.rs)
    ELSE \* node.data = "var"
        LET varName == node.children[1]
        IN  IF varName \in DOMAIN ctx THEN Value(ctx[varName], rs)
            ELSE Raised(VariableNotDefined)

RECURSIVE evalCondition(_, _, _)
evalCondition(node, ctx, rs) ==
    IF node.data \in {"and", "or"} THEN
        LET a == evalCondition(node.children[1], ctx, rs)
        IN  IF a.exc # "none" THEN a
            ELSE IF node.data = "and" /\ ~a.v THEN a
            ELSE IF node.data = "or" /\ a.v THEN a
            ELSE evalCondition(node.children[2], ctx, a.rs)
    ELSE IF node.data = "not" THEN
        LET a == evalCondition(node.children[1], ctx, rs)
        IN  IF a.exc # "none" THEN a ELSE Value(~a.v, a.rs)
    ELSE
        LET a == evalSum(node.children[1], ctx, rs)
        IN  IF a.exc # "none" THEN a
            ELSE LET b == evalSum(node.children[2], ctx, a.rs)
                 IN  IF b.exc # "none" THEN b
                     ELSE CASE node.data = "eq"  -> Value(a.v = b.v, b.rs)
                            [] node.data = "neq" -> Value(a.v # b.v, b.rs)
                            [] node.data = "lt"  -> Value(a.v < b.v, b.rs)
                            [] node.data = "let" -> Value(a.v <= b.v, b.rs)
                            [] node.data = "gt"  -> Value(a.v > b.v, b.rs)
                            [] node.data = "get" -> Value(a.v >= b.v, b.rs)

-----------------------------------------------------------------------------
(* evalRule, up to the point where it starts on the rule's body.  The      *)
(* result is [exc, ctx, body, rs].                                         *)

\* faulty variant: the new context starts as the caller's
NewCtxInherits(ctx) == ctx

\* newCtx = {}
NewCtx(ctx) == EmptyDict

\* faulty variant: only a call with too many arguments is refused
WrongArityTooMany(nParams, nArgs) == nParams < nArgs

\* len(ruleDef[0]) != len(node.children)-1
WrongArity(nParams, nArgs) == nParams # nArgs

\* faulty variant: an argument sees the parameters bound so far, over the
\* caller's bindings
ArgumentCtxCallee(ctx, newCtx) ==
    [n \in DOMAIN ctx \cup DOMAIN newCtx |-> IF n \in DOMAIN newCtx THEN newCtx[n] ELSE ctx[n]]

\* the context handed to evalSum for an argument: the caller's ctx
ArgumentCtx(ctx, newCtx) == ctx

\* for name in ruleDef[0]: newCtx[name.value] = self.evalSum(node.children[i+1], ctx)
RECURSIVE MergeArguments(_, _, _, _, _, _)
MergeArguments(names, node, i, ctx, newCtx, rs) ==
    IF i >= Len(names) THEN [exc |-> "none", ctx |-> newCtx, rs |-> rs]
    ELSE IF i + 2 > Len(node.children)
         \* node.children[i+1] of a call with fewer arguments than parameters
         THEN [exc |-> ListIndexOutOfRange, ctx |-> newCtx, rs |-> <<>>]
    ELSE LET name == names[i + 1]
             a == evalSum(node.children[i + 2], ArgumentCtx(ctx, newCtx), rs)
         IN  IF a.exc # "none" THEN [exc |-> a.exc, ctx |-> newCtx, rs |-> <<>>]
             ELSE MergeArguments(names, node, i + 1, ctx,
                                 [n \in DOMAIN newCtx \cup {name} |->
                                     IF n = name THEN a.v ELSE newCtx[n]],
                                 a.rs)

\* faulty variant: the arguments are evaluated before the rule is looked up
evalRuleArgsFirst(node, ctx, rs) ==
    LET ruleName == node.children[1]
        failed(e) == [exc |-> e, ctx |-> EmptyDict, body |-> <<>>, rs |-> <<>>]
        early == MergeArguments([k \in 1..(Len(node.children) - 1) |-> "arg"],
                                node, 0, ctx, EmptyDict, rs)
    IN  IF early.exc # "none" THEN failed(early.exc)
        ELSE IF ruleName \notin DOMAIN rules(prog) THEN failed(KeyError)
        ELSE LET ruleDef == rules(prog)[ruleName]
             IN  IF WrongArity(Len(ruleDef[1]), Len(node.children) - 1)
                 THEN failed(WrongNumberOfArguments)
                 ELSE LET m == MergeArguments(ruleDef[1], node, 0, ctx, NewCtx(ctx), rs)
                      IN  IF m.exc # "none" THEN failed(m.exc)
                          ELSE [exc |-> "none", ctx |-> m.ctx, body |-> ruleDef[2], rs |-> m.rs]

evalRule(node, ctx, rs) ==
    LET ruleName == node.children[1]
        failed(e) == [exc |-> e, ctx |-> EmptyDict, body |-> <<>>, rs |-> <<>>]
    IN  IF ruleName \notin DOMAIN rules(prog) THEN failed(KeyError)
        ELSE LET ruleDef == rules(prog)[ruleName]
             IN  IF WrongArity(Len(ruleDef[1]), Len(node.children) - 1)
                 THEN failed(WrongNumberOfArguments)
                 ELSE LET m == MergeArguments(ruleDef[1], node, 0, ctx, NewCtx(ctx), rs)
                      IN  IF m.exc # "none" THEN failed(m.exc)
                          ELSE [exc |-> "none", ctx |-> m.ctx, body |-> ruleDef[2], rs |-> m.rs]

-----------------------------------------------------------------------------
(* Turtle functions *)

pitch(angle) ==
    /\ turtleQuat' = MatMul(RotX(angle), turtleQuat)
    /\ UNCHANGED <<turtlePos, vertices, currentVertexIndex, edges, leaves, turtleQueue>>

roll(angle) ==
    /\ turtleQuat' = MatMul(RotZ(angle), turtleQuat)
    /\ UNCHANGED <<turtlePos, vertices, currentVertexIndex, edges, leaves, turtleQueue>>

\* faulty variant: the edge's target is one past the new vertex
createBranchOffByOne(length, radius) ==
    /\ turtlePos' = VAdd(turtlePos, VScale(Forward(turtleQuat), length))
    /\ vertices' = Append(vertices, <<turtlePos', radius>>)
    /\ edges' = Append(edges, <<currentVertexIndex, Len(vertices')>>)
    /\ currentVertexIndex' = Len(vertices') - 1
    /\ UNCHANGED <<turtleQuat, leaves, turtleQueue>>

\* faulty variant: the edge starts at the vertex appended last, not at
\* currentVertexIndex
createBranchFromLast(length, radius) ==
    /\ turtlePos' = VAdd(turtlePos, VScale(Forward(turtleQuat), length))
    /\ vertices' = Append(vertices, <<turtlePos', radius>>)
    /\ edges' = Append(edges, <<Len(vertices) - 1, Len(vertices') - 1>>)
    /\ currentVertexIndex' = Len(vertices') - 1
    /\ UNCHANGED <<turtleQuat, leaves, turtleQueue>>

\* faulty variant: currentVertexIndex is updated before the edge is appended
createBranchIndexFirst(length, radius) ==
    /\ turtlePos' = VAdd(turtlePos, VScale(Forward(turtleQuat), length))
    /\ vertices' = Append(vertices, <<turtlePos', radius>>)
    /\ currentVertexIndex' = Len(vertices') - 1
    /\ edges' = Append(edges, <<currentVertexIndex', Len(vertices') - 1>>)
    /\ UNCHANGED <<turtleQuat, leaves, turtleQueue>>

createBranch(length, radius) ==
    /\ turtlePos' = VAdd(turtlePos, VScale(Forward(turtleQuat), length))
    /\ vertices' = Append(vertices, <<turtlePos', radius>>)
    /\ edges' = Append(edges, <<currentVertexIndex, Len(vertices') - 1>>)
    /\ currentVertexIndex' = Len(vertices') - 1
    /\ UNCHANGED <<turtleQuat, leaves, turtleQueue>>

\* faulty variant: the leaf point is appended to the skeleton as well
createLeafAsVertex(length, radius) ==
    /\ turtlePos' = VAdd(turtlePos, VScale(Forward(turtleQuat), length))
    /\ leaves' = Append(leaves, <<turtlePos', radius>>)
    /\ vertices' = Append(vertices, <<turtlePos', radius>>)
    /\ UNCHANGED <<turtleQuat, currentVertexIndex, edges, turtleQueue>>

createLeaf(length, radius) ==
    /\ turtlePos' = VAdd(turtlePos, VScale(Forward(turtleQuat), length))
    /\ leaves' = Append(leaves, <<turtlePos', radius>>)
    /\ UNCHANGED <<turtleQuat, vertices, currentVertexIndex, edges, turtleQueue>>

pushPos ==
    /\ turtleQueue' = Append(turtleQueue, <<currentVertexIndex, turtlePos, turtleQuat>>)
    /\ UNCHANGED <<turtlePos, turtleQuat, vertices, currentVertexIndex, edges, leaves>>

turtle == <<turtlePos, turtleQuat, vertices, currentVertexIndex, edges, leaves, turtleQueue>>

-----------------------------------------------------------------------------
(* The interpreter's control state *)

top == stack[Len(stack)]

\* the instruction evalInstruction is called on next
inst == Head(top.todo)

\* the call stack once the current instruction has been taken from its body
Rest == [stack EXCEPT ![Len(stack)].todo = Tail(@)]

\* the for loops of the activations that have no instruction left return
RECURSIVE Unwind(_)
Unwind(s) ==
    IF Len(s) > 0 /\ Len(s[Len(s)].todo) = 0 THEN Unwind(SubSeq(s, 1, Len(s) - 1)) ELSE s

\* the instruction returned normally: evaluation goes on with the call stack s
Resume(s) ==
    /\ stack' = Unwind(s)
    /\ pc' = IF Len(Unwind(s)) = 0 THEN "post" ELSE "eval"
    /\ UNCHANGED <<exc, meshed>>

\* faulty variant: exec catches the exception and goes on with the post-pass
PropagateSwallowed(e) ==
    /\ stack' = <<>>
    /\ pc' = "post"
    /\ exc' = e
    /\ UNCHANGED meshed

\* an exception is raised: nothing in exec or below catches it
Propagate(e) ==
    /\ stack' = <<>>
    /\ pc' = "raised"
    /\ exc' = e
    /\ UNCHANGED meshed

\* the random() values an instruction may consume
Draws(node) == [1..NoiseCount(node) -> RandomValues]

\* faulty variant: the saved state is read but not removed from the stack
popPosKeepsEntry ==
    IF Len(turtleQueue) = 0
    THEN Propagate(PopFromEmptyList) /\ UNCHANGED turtle
    ELSE LET saved == turtleQueue[Len(turtleQueue)]
         IN  /\ currentVertexIndex' = saved[1]
             /\ turtlePos' = saved[2]
             /\ turtleQuat' = saved[3]
             /\ UNCHANGED <<vertices, edges, leaves, turtleQueue>>
             /\ Resume(Rest)

\* faulty variant: a pop of the empty stack is skipped silently
popPosGuarded ==
    IF Len(turtleQueue) = 0
    THEN UNCHANGED turtle /\ Resume(Rest)
    ELSE LET saved == turtleQueue[Len(turtleQueue)]
         IN  /\ turtleQueue' = SubSeq(turtleQueue, 1, Len(turtleQueue) - 1)
             /\ currentVertexIndex' = saved[1]
             /\ turtlePos' = saved[2]
             /\ turtleQuat' = saved[3]
             /\ UNCHANGED <<vertices, edges, leaves>>
             /\ Resume(Rest)

\* faulty variant: the oldest saved state is taken, not the newest
popPosFifo ==
    IF Len(turtleQueue) = 0
    THEN Propagate(PopFromEmptyList) /\ UNCHANGED turtle
    ELSE LET saved == turtleQueue[1]
         IN  /\ turtleQueue' = Tail(turtleQueue)
             /\ currentVertexIndex' = saved[1]
             /\ turtlePos' = saved[2]
             /\ turtleQuat' = saved[3]
             /\ UNCHANGED <<vertices, edges, leaves>>
             /\ Resume(Rest)

\* faulty variant: the vertices and edges created after the restored vertex
\* are dropped
popPosRollsBack ==
    IF Len(turtleQueue) = 0
    THEN Propagate(PopFromEmptyList) /\ UNCHANGED turtle
    ELSE LET saved == turtleQueue[Len(turtleQueue)]
         IN  /\ turtleQueue' = SubSeq(turtleQueue, 1, Len(turtleQueue) - 1)
             /\ currentVertexIndex' = saved[1]
             /\ turtlePos' = saved[2]
             /\ turtleQuat' = saved[3]
             /\ vertices' = SubSeq(vertices, 1, saved[1] + 1)
             /\ edges' = SubSeq(edges, 1, saved[1])
             /\ UNCHANGED leaves
             /\ Resume(Rest)

\* list.pop() of an empty list raises IndexError before anything is assigned
popPos ==
    IF Len(turtleQueue) = 0
    THEN Propagate(PopFromEmptyList) /\ UNCHANGED turtle
    ELSE LET saved == turtleQueue[Len(turtleQueue)]
         IN  /\ turtleQueue' = SubSeq(turtleQueue, 1, Len(turtleQueue) - 1)
             /\ currentVertexIndex' = saved[1]
             /\ turtlePos' = saved[2]
             /\ turtleQuat' = saved[3]
             /\ UNCHANGED <<vertices, edges, leaves>>
             /\ Resume(Rest)

Snapshot ==
    [turtlePos |-> turtlePos, turtleQuat |-> turtleQuat,
     currentVertexIndex |-> currentVertexIndex, turtleQueue |-> turtleQueue,
     vertices |-> vertices, edges |-> edges, leaves |-> leaves,
     rule |-> IF Len(stack) = 0 THEN "" ELSE top.rule,
     ctx |-> IF Len(stack) = 0 THEN EmptyDict ELSE top.ctx,
     outer |-> UNION {DOMAIN stack[i].ctx : i \in 1..(Len(stack) - 1)},
     depth |-> Len(stack), stack |-> stack]

\* hist: the instruction executed last (op, inst), the values its operands
\* evaluated to (args), whether it returned (ok), the state before it (pre),
\* the number of instructions executed so far (n), the instruction before
\* it (op2, ok2, pre2), the push_inst executions no pop_inst has matched yet,
\* oldest first (open), and the one the last pop_inst matched (matched)
NoInst == Tree("none", <<>>)

\* what is known of a push_inst when it executes: the turtle, the depth of the
\* activation that executes it and the number of vertices
Pushed ==
    [turtlePos |-> turtlePos, turtleQuat |-> turtleQuat,
     currentVertexIndex |-> currentVertexIndex,
     depth |-> Len(stack), vertices |-> Len(vertices)]

NoPushed ==
    [turtlePos |-> Vector(0, 0, 0), turtleQuat |-> Quaternion, currentVertexIndex |-> 0,
     depth |-> 0, vertices |-> 0]

NoHistory(snap) ==
    [op |-> "none", inst |-> NoInst, args |-> <<>>, ok |-> TRUE, pre |-> snap, n |-> 0,
     op2 |-> "none", ok2 |-> TRUE, pre2 |-> snap, open |-> <<>>, matched |-> NoPushed]

Record(args) ==
    LET matching == inst.data = "pop_inst" /\ Len(hist.open) > 0
    IN  hist' = [op |-> inst.data, inst |-> inst, args |-> args, ok |-> pc' # "raised",
                 pre |-> Snapshot, n |-> hist.n + 1,
                 op2 |-> hist.op, ok2 |-> hist.ok, pre2 |-> hist.pre,
                 open |-> IF inst.data = "push_inst" THEN Append(hist.open, Pushed)
                          ELSE IF matching THEN SubSeq(hist.open, 1, Len(hist.open) - 1)
                          ELSE hist.open,
                 matched |-> IF matching THEN hist.open[Len(hist.open)] ELSE NoPushed]

Outcome == [vertices |-> vertices, edges |-> edges, leaves |-> leaves, exc |-> exc]

-----------------------------------------------------------------------------
(* exec *)

\* faulty variant: the edges of the previous exec are kept
InitTurtleKeepsEdges ==
    /\ turtlePos' = Vector(0, 0, 0)
    /\ turtleQuat' = Quaternion
    /\ vertices' = <<<<turtlePos', float("1")>>>>
    /\ currentVertexIndex' = 0
    /\ leaves' = <<>>
    /\ turtleQueue' = <<>>
    /\ UNCHANGED edges

\* lines 171-177
InitTurtle ==
    /\ turtlePos' = Vector(0, 0, 0)
    /\ turtleQuat' = Quaternion
    /\ vertices' = <<<<turtlePos', float("1")>>>>
    /\ currentVertexIndex' = 0
    /\ edges' = <<>>
    /\ leaves' = <<>>
    /\ turtleQueue' = <<>>

Exec ==
    /\ pc \in {"idle", "done", "raised"}
    /\ runs < MaxRuns
    /\ InitTurtle
    /\ stack' = <<>>
    /\ pc' = "axiom"
    /\ exc' = "none"
    /\ meshed' = FALSE
    /\ runs' = runs + 1
    /\ prev' = Outcome
    /\ hist' = NoHistory(Snapshot')
    /\ UNCHANGED prog

\* self.evalRule(self.axiom, {})
AxiomCall ==
    /\ pc = "axiom"
    /\ \E rs \in Draws(axiom(prog)) :
          \E r \in {evalRule(axiom(prog), EmptyDict, rs)} :
              IF r.exc # "none" THEN Propagate(r.exc)
              ELSE Resume(<<[rule |-> axiom(prog).children[1], ctx |-> r.ctx, todo |-> r.body]>>)
    /\ UNCHANGED <<prog, turtle, runs, prev, hist>>

\* faulty variant: the root takes the radius of the last vertex
RootRadiusFromLast ==
    IF Len(vertices) < 2
    THEN Propagate(ListIndexOutOfRange) /\ UNCHANGED vertices
    ELSE /\ vertices' = [vertices EXCEPT ![1] = <<vertices[1][1], vertices[Len(vertices)][2]>>]
         /\ pc' = "mesh"
         /\ UNCHANGED <<stack, exc, meshed>>

\* faulty variant: the post-pass is skipped when there is no second vertex
RootRadiusGuarded ==
    IF Len(vertices) < 2
    THEN pc' = "mesh" /\ UNCHANGED <<vertices, stack, exc, meshed>>
    ELSE /\ vertices' = [vertices EXCEPT ![1] = <<vertices[1][1], vertices[2][2]>>]
         /\ pc' = "mesh"
         /\ UNCHANGED <<stack, exc, meshed>>

\* self.vertices[0] = (self.vertices[0][0], self.vertices[1][1])
RootRadius ==
    IF Len(vertices) < 2
    THEN Propagate(ListIndexOutOfRange) /\ UNCHANGED vertices
    ELSE /\ vertices' = [vertices EXCEPT ![1] = <<vertices[1][1], vertices[2][2]>>]
         /\ pc' = "mesh"
         /\ UNCHANGED <<stack, exc, meshed>>

PostPass ==
    /\ pc = "post"
    /\ RootRadius
    /\ UNCHANGED <<prog, turtlePos, turtleQuat, currentVertexIndex, edges, leaves,
                   turtleQueue, runs, prev, hist>>

\* self.createMesh()
CreateMesh ==
    /\ pc = "mesh"
    /\ meshed' = TRUE
    /\ pc' = "done"
    /\ UNCHANGED <<prog, turtle, stack, exc, runs, prev, hist>>

-----------------------------------------------------------------------------
(* evalInstruction, one action per kind of instruction *)

RuleCallInstruction ==
    /\ pc = "eval"
    /\ inst.data = "rule_call_inst"
    /\ \E rs \in Draws(inst) :
          \E r \in {evalRule(inst.children[1], top.ctx, rs)} :
              IF r.exc # "none" THEN Propagate(r.exc)
              ELSE Resume(Append(Rest, [rule |-> inst.children[1].children[1],
                                        ctx |-> r.ctx, todo |-> r.body]))
    /\ Record(<<>>)
    /\ UNCHANGED <<prog, turtle, runs, prev>>

PitchInstruction ==
    /\ pc = "eval"
    /\ inst.data = "pitch_inst"
    /\ \E rs \in Draws(inst) :
          LET a == evalSum(inst.children[1], top.ctx, rs)
          IN  IF a.exc # "none"
              THEN Propagate(a.exc) /\ UNCHANGED turtle /\ Record(<<>>)
              ELSE pitch(a.v) /\ Resume(Rest) /\ Record(<<a.v>>)
    /\ UNCHANGED <<prog, runs, prev>>

RollInstruction ==
    /\ pc = "eval"
    /\ inst.data = "roll_inst"
    /\ \E rs \in Draws(inst) :
          LET a == evalSum(inst.children[1], top.ctx, rs)
          IN  IF a.exc # "none"
              THEN Propagate(a.exc) /\ UNCHANGED turtle /\ Record(<<>>)
              ELSE roll(a.v) /\ Resume(Rest) /\ Record(<<a.v>>)
    /\ UNCHANGED <<prog, runs, prev>>

CreateBranchInstruction ==
    /\ pc = "eval"
    /\ inst.data = "create_branch"
    /\ \E rs \in Draws(inst) :
          LET a == evalSum(inst.children[1], top.ctx, rs)
              b == evalSum(inst.children[2], top.ctx, a.rs)
          IN  IF a.exc # "none"
              THEN Propagate(a.exc) /\ UNCHANGED turtle /\ Record(<<>>)
              ELSE IF b.exc # "none"
              THEN Propagate(b.exc) /\ UNCHANGED turtle /\ Record(<<>>)
              ELSE createBranch(a.v, b.v) /\ Resume(Rest) /\ Record(<<a.v, b.v>>)
    /\ UNCHANGED <<prog, runs, prev>>

CreateLeafInstruction ==
    /\ pc = "eval"
    /\ inst.data = "create_leaf"
    /\ \E rs \in Draws(inst) :
          LET a == evalSum(inst.children[1], top.ctx, rs)
              b == evalSum(inst.children[2], top.ctx, a.rs)
          IN  IF a.exc # "none"
              THEN Propagate(a.exc) /\ UNCHANGED turtle /\ Record(<<>>)
              ELSE IF b.exc # "none"
              THEN Propagate(b.exc) /\ UNCHANGED turtle /\ Record(<<>>)
              ELSE createLeaf(a.v, b.v) /\ Resume(Rest) /\ Record(<<a.v, b.v>>)
    /\ UNCHANGED <<prog, runs, prev>>

PushInstruction ==
    /\ pc = "eval"
    /\ inst.data = "push_inst"
    /\ pushPos
    /\ Resume(Rest)
    /\ Record(<<>>)
    /\ UNCHANGED <<prog, runs, prev>>

PopInstruction ==
    /\ pc = "eval"
    /\ inst.data = "pop_inst"
    /\ popPos
    /\ Record(<<>>)
    /\ UNCHANGED <<prog, runs, prev>>

\* faulty variant: a true test runs the then body and falls through into the
\* else body
ChosenBodyFallsThrough(node, test) ==
    IF test
    THEN node.children[2].children
         \o (IF Len(node.children) > 2 THEN node.children[3].children ELSE <<>>)
    ELSE IF Len(node.children) > 2 THEN node.children[3].children
    ELSE <<>>

\* the instructions a cond_inst executes, test being the value of its condition
ChosenBody(node, test) ==
    IF test THEN node.children[2].children
    ELSE IF Len(node.children) > 2 THEN node.children[3].children
    ELSE <<>>

\* the chosen body is executed by the same activation, with the same ctx
CondInstruction ==
    /\ pc = "eval"
    /\ inst.data = "cond_inst"
    /\ \E rs \in Draws(inst.children[1]) :
          LET c == evalCondition(inst.children[1], top.ctx, rs)
          IN  IF c.exc # "none" THEN Propagate(c.exc)
              ELSE Resume([Rest EXCEPT ![Len(stack)].todo = ChosenBody(inst, c.v) \o @])
    /\ Record(<<>>)
    /\ UNCHANGED <<prog, turtle, runs, prev>>

-----------------------------------------------------------------------------
(* The specification *)

NoOutcome == [vertices |-> <<>>, edges |-> <<>>, leaves |-> <<>>, exc |-> "none"]

\* After LSystem(text): no exec yet; the fields exec creates are empty
Init ==
    /\ prog \in {LSystem(text) : text \in Programs}
    /\ turtlePos = Vector(0, 0, 0)
    /\ turtleQuat = Quaternion
    /\ vertices = <<>>
    /\ currentVertexIndex = 0
    /\ edges = <<>>
    /\ leaves = <<>>
    /\ turtleQueue = <<>>
    /\ stack = <<>>
    /\ pc = "idle"
    /\ exc = "none"
    /\ meshed = FALSE
    /\ runs = 0
    /\ prev = NoOutcome
    /\ hist = NoHistory(Snapshot)

Next ==
    \/ Exec
    \/ AxiomCall
    \/ RuleCallInstruction
    \/ PitchInstruction
    \/ RollInstruction
    \/ CreateBranchInstruction
    \/ CreateLeafInstruction
    \/ PushInstruction
    \/ PopInstruction
    \/ CondInstruction
    \/ PostPass
    \/ CreateMesh

Spec == Init /\ [][Next]_vars

\* a step of the evaluation of the axiom
EvalStep ==
    \/ AxiomCall
    \/ RuleCallInstruction
    \/ PitchInstruction
    \/ RollInstruction
    \/ CreateBranchInstruction
    \/ CreateLeafInstruction
    \/ PushInstruction
    \/ PopInstruction
    \/ CondInstruction

\* once exec has been called the interpreter keeps executing: the evaluation
\* is one sequential thread that waits for nothing
FairSpec == Spec /\ WF_vars(EvalStep)

-----------------------------------------------------------------------------
(* Properties *)

\* the state is the one the last instruction (of kind op) returned into
JustExecuted(op) == pc \in {"eval", "post"} /\ hist.op = op /\ hist.ok

ParamNames(rule) ==
    {rules(prog)[rule][1][k] : k \in 1..Len(rules(prog)[rule][1])}

\* the variable names an expression or instruction refers to
RECURSIVE FreeVars(_)
FreeVars(node) ==
    IF node.data = "var" THEN {node.children[1]}
    ELSE UNION {FreeVars(node.children[i]) : i \in SubTrees(node)}

Origin == Vector(0, 0, 0)

\* C1: in every state, both ends of every edge are indices of vertices:
\* 0 <= index < len(vertices).
EdgesValid ==
    \A k \in 1..Len(edges) :
        /\ edges[k][1] \in 0..(Len(vertices) - 1)
        /\ edges[k][2] \in 0..(Len(vertices) - 1)

\* an edge that starts at a vertex restored by a Pop, not at the newest one
EdgeFromRestoredVertex ==
    /\ pc = "eval"
    /\ \E k \in 1..Len(edges) : edges[k][1] + 1 < edges[k][2]

\* C2: a Push immediately followed by a Pop leaves position, orientation,
\* currentVertexIndex and the contents of the branch stack as they were
\* before the Push.
PushPopRestores ==
    (hist.op = "pop_inst" /\ hist.op2 = "push_inst") =>
        /\ hist.ok
        /\ turtlePos = hist.pre2.turtlePos
        /\ turtleQuat = hist.pre2.turtleQuat
        /\ currentVertexIndex = hist.pre2.currentVertexIndex
        /\ turtleQueue = hist.pre2.turtleQueue

PushPopAfterBranch ==
    /\ hist.op = "pop_inst"
    /\ hist.op2 = "push_inst"
    /\ hist.ok
    /\ currentVertexIndex > 0
    /\ turtlePos # Origin

\* C3 (as stated): CreateLeaf appends one entry to leaves and changes nothing
\* else; in particular the turtle's position is the one before the instruction.
CreateLeafKeepsPosition ==
    JustExecuted("create_leaf") =>
        /\ Len(leaves) = Len(hist.pre.leaves) + 1
        /\ SubSeq(leaves, 1, Len(hist.pre.leaves)) = hist.pre.leaves
        /\ vertices = hist.pre.vertices
        /\ edges = hist.pre.edges
        /\ currentVertexIndex = hist.pre.currentVertexIndex
        /\ turtlePos = hist.pre.turtlePos

\* C3 (amended): CreateLeaf(length, radius) appends exactly the entry
\* (point, radius) to leaves, point being the position advanced by length
\* along the forward direction; it creates no vertex or edge and leaves
\* currentVertexIndex, orientation and the branch stack unchanged; the
\* turtle's position after the instruction is point.
CreateLeafEffect ==
    JustExecuted("create_leaf") =>
        LET point == VAdd(hist.pre.turtlePos,
                          VScale(Forward(hist.pre.turtleQuat), hist.args[1]))
        IN  /\ leaves = Append(hist.pre.leaves, <<point, hist.args[2]>>)
            /\ vertices = hist.pre.vertices
            /\ edges = hist.pre.edges
            /\ currentVertexIndex = hist.pre.currentVertexIndex
            /\ turtleQuat = hist.pre.turtleQuat
            /\ turtleQueue = hist.pre.turtleQueue
            /\ turtlePos = point

LeafMovedTurtle ==
    /\ JustExecuted("create_leaf")
    /\ turtlePos # hist.pre.turtlePos
    /\ Len(vertices) > 1

\* C4: a Pop of the empty branch stack raises and changes neither position,
\* orientation, currentVertexIndex, vertices, edges nor leaves; a Pop of a
\* non-empty branch stack does not raise.
PopOnEmptyStack ==
    hist.op = "pop_inst" =>
        IF Len(hist.pre.turtleQueue) = 0
        THEN /\ ~hist.ok
             /\ pc = "raised"
             /\ exc = PopFromEmptyList
             /\ turtlePos = hist.pre.turtlePos
             /\ turtleQuat = hist.pre.turtleQuat
             /\ currentVertexIndex = hist.pre.currentVertexIndex
             /\ vertices = hist.pre.vertices
             /\ edges = hist.pre.edges
             /\ leaves = hist.pre.leaves
        ELSE hist.ok

PopRaisedAfterBranch ==
    /\ hist.op = "pop_inst"
    /\ ~hist.ok
    /\ exc = PopFromEmptyList
    /\ Len(vertices) > 1

\* C5: the context of every activation holds exactly the parameters of its
\* rule; an instruction that refers to a name bound in an outer activation
\* but not among the parameters of its own rule raises "variable not defined".
ScopeIsolation ==
    /\ \A i \in 1..Len(stack) : DOMAIN stack[i].ctx = ParamNames(stack[i].rule)
    /\ \A v \in FreeVars(hist.inst) :
          ( /\ hist.op \in {"create_branch", "create_leaf", "pitch_inst", "roll_inst"}
            /\ v \in hist.pre.outer
            /\ v \notin ParamNames(hist.pre.rule) )
          => (~hist.ok /\ pc = "raised" /\ exc = VariableNotDefined)

CallerVariableRefused ==
    /\ pc = "raised"
    /\ exc = VariableNotDefined
    /\ hist.pre.rule = "scope"
    /\ "l" \in hist.pre.outer
    /\ "l" \in FreeVars(hist.inst)

\* the arity check of one call: ok is whether the call returned, e the exception
CallChecked(call, ok, e) ==
    LET ruleName == call.children[1]
    IN  ruleName \in DOMAIN rules(prog) =>
            IF Len(rules(prog)[ruleName][1]) # Len(call.children) - 1
            THEN ~ok /\ e = WrongNumberOfArguments
            ELSE e # WrongNumberOfArguments

\* C6: a call of a defined rule with n parameters raises "wrong number of
\* arguments" when it has m # n arguments, and does not raise it when m = n;
\* the axiom is such a call too.
ArityEnforced ==
    /\ hist.op = "rule_call_inst" => CallChecked(hist.inst.children[1], hist.ok, exc)
    /\ (hist.op = "none" /\ pc \notin {"idle", "axiom"}) =>
           CallChecked(axiom(prog), pc # "raised", exc)

ArityRaisedInBody ==
    /\ hist.op = "rule_call_inst"
    /\ pc = "raised"
    /\ exc = WrongNumberOfArguments
    /\ hist.n > 1

\* C7: an exception leaves exec without createMesh having been invoked;
\* createMesh is invoked only when the evaluation of the axiom has returned
\* without an exception and the root radius has been corrected.
ErrorsAbandonMesh ==
    /\ (exc # "none" \/ ~hist.ok) => (pc = "raised" /\ exc # "none" /\ ~meshed)
    /\ pc = "raised" => (exc # "none" /\ ~meshed)
    /\ (meshed \/ pc = "mesh") =>
           /\ exc = "none"
           /\ Len(stack) = 0
           /\ Len(vertices) >= 2
           /\ vertices[1][2] = vertices[2][2]
    /\ meshed => pc = "done"

RaisedWithPartialGraph ==
    /\ pc = "raised"
    /\ exc = KeyError
    /\ Len(edges) > 0
    /\ ~meshed

\* the step of the post-pass that returns
PostPassStep ==
    (pc = "post" /\ pc' = "mesh") =>
        /\ vertices' = [vertices EXCEPT ![1] = <<Origin, vertices[2][2]>>]
        /\ UNCHANGED <<edges, leaves, turtlePos, turtleQuat, currentVertexIndex, turtleQueue>>

ScenarioResult ==
    (prog.axiom = "init" /\ pc \in {"mesh", "done"}) =>
        /\ vertices = << <<Origin, float("1")>>,
                         <<Vector(0, 0, float("2")), float("1")>>,
                         <<Vector(0, 0, float("2") + float("3")), float("0.5")>> >>
        /\ edges = << <<0, 1>>, <<1, 2>> >>
        /\ leaves = <<>>

\* C8: the post-pass sets the radius of vertices[0] to that of vertices[1],
\* keeps its position (the origin) and changes no other vertex, no edge and
\* no leaf; the program init() with init(): ^(2,1)^(3,0.5) ends with three
\* vertices of radii 1.0, 1.0, 0.5, the edges (0,1) and (1,2), and no leaf.
RootRadiusPostPass == [][PostPassStep]_vars /\ []ScenarioResult

ScenarioDone ==
    /\ prog.axiom = "init"
    /\ pc = "done"
    /\ meshed
    /\ Len(vertices) = 3

\* the step of the post-pass when vertices holds only the sentinel
SentinelOnlyStep ==
    (pc = "post" /\ Len(vertices) < 2) =>
        /\ pc' = "raised"
        /\ exc' = ListIndexOutOfRange
        /\ ~meshed'
        /\ UNCHANGED <<vertices, edges, leaves>>

\* C9: when the evaluation of the axiom returns with vertices holding only
\* the sentinel, exec ends with the IndexError of the post-pass and createMesh
\* is not invoked: no output graph is produced.
NoBranchRaises ==
    /\ [][SentinelOnlyStep]_vars
    /\ [](Len(vertices) < 2 => (pc \notin {"mesh", "done"} /\ ~meshed))

PostPassRaised ==
    /\ pc = "raised"
    /\ exc = ListIndexOutOfRange
    /\ hist.ok
    /\ hist.n > 1
    /\ Len(vertices) = 1
    /\ Len(leaves) > 0

NoNoise == NoiseCount(ParseTree(prog)) = 0

\* C10: two successive exec calls of a program without noise node end with
\* the same vertices, edges and leaves and the same exception, if any.
Deterministic ==
    (runs >= 2 /\ pc \in {"done", "raised"} /\ NoNoise) => Outcome = prev

SecondRunDone ==
    /\ runs = 2
    /\ pc = "done"
    /\ NoNoise
    /\ Len(edges) >= 2
    /\ Len(leaves) >= 1
    /\ Outcome = prev

\* the state before the last instruction, as the frame that executed it saw it
PreFrame == hist.pre.stack[hist.pre.depth]

\* the turtle and the output lists are as before the last instruction
TurtleAsBefore ==
    /\ turtlePos = hist.pre.turtlePos
    /\ turtleQuat = hist.pre.turtleQuat
    /\ currentVertexIndex = hist.pre.currentVertexIndex
    /\ turtleQueue = hist.pre.turtleQueue
    /\ vertices = hist.pre.vertices
    /\ edges = hist.pre.edges
    /\ leaves = hist.pre.leaves

\* the instructions the activation has to execute after a cond_inst: those of
\* exactly one body, or of none, followed by what followed the cond_inst
AfterCond(node, test, following) ==
    CASE test -> node.children[2].children \o following
      [] ~test /\ Len(node.children) = 3 -> node.children[3].children \o following
      [] ~test /\ Len(node.children) = 2 -> following

\* C11: a Conditional executes exactly one of its then body (test true), its
\* else body (test false, else present) or nothing (test false, no else); the
\* chosen body runs in the activation and context of the Conditional itself:
\* no frame is pushed, the bindings are the same, and the Conditional itself
\* changes nothing of the turtle or the output.
CondExecutesOneBody ==
    (JustExecuted("cond_inst") /\ NoiseCount(hist.inst) = 0) =>
        LET test == evalCondition(hist.inst.children[1], hist.pre.ctx, <<>>).v
            todo == AfterCond(hist.inst, test, Tail(PreFrame.todo))
            pre  == hist.pre.stack
        IN  /\ TurtleAsBefore
            /\ IF todo # <<>>
               THEN /\ Len(stack) = Len(pre)
                    /\ top = [rule |-> PreFrame.rule, ctx |-> PreFrame.ctx, todo |-> todo]
                    /\ \A i \in 1..(Len(pre) - 1) : stack[i] = pre[i]
               ELSE /\ Len(stack) < Len(pre)
                    /\ \A i \in 1..Len(stack) : stack[i].ctx = pre[i].ctx

\* the else body of a Conditional of conds(d) was chosen, after the then body
\* of the first one had created a vertex; d is still bound
ElseBodyChosen ==
    /\ JustExecuted("cond_inst")
    /\ prog.axiom = "conds"
    /\ Len(hist.inst.children) = 3
    /\ inst = CreateBranchInst(Number("2"), Number("2"))
    /\ Len(vertices) = 2
    /\ "d" \in DOMAIN top.ctx

Abs(x) == IF x < 0 THEN -x ELSE x

\* the last instruction was a create_branch whose length is a noise atom
NoisyLength ==
    /\ hist.op = "create_branch"
    /\ hist.ok
    /\ hist.inst.children[1].data = "noise"
    /\ NoiseCount(hist.inst) = 1

NoiseBase == evalSum(hist.inst.children[1].children[1], hist.pre.ctx, <<>>).v
NoiseSpread == evalSum(hist.inst.children[1].children[2], hist.pre.ctx, <<>>).v

\* C12: every evaluation of Noise(base, spread) returns a value v with
\* base - |spread| <= v <= base + |spread|, for positive, zero and negative
\* spread; the random factor u lies in [-1, 1).
NoiseWithinSpread ==
    /\ \A r \in RandomValues : -One <= RandomFactor(r) /\ RandomFactor(r) < One
    /\ NoisyLength =>
         /\ NoiseBase - Abs(NoiseSpread) <= hist.args[1]
         /\ hist.args[1] <= NoiseBase + Abs(NoiseSpread)
         /\ NoiseSpread = 0 => hist.args[1] = NoiseBase

\* a negative spread and the factor -1 gave the upper end of the interval
NegativeSpreadAtUpperEnd ==
    /\ NoisyLength
    /\ NoiseSpread < 0
    /\ hist.args[1] = NoiseBase + Abs(NoiseSpread)
    /\ vertices[Len(vertices)][1] # hist.pre.turtlePos

\* C13: CreateBranch(length, radius) appends exactly one vertex
\* (newPos, radius) at index newIndex = old len(vertices) and exactly one edge
\* (old currentVertexIndex, newIndex), sets currentVertexIndex to newIndex and
\* the position to newPos, and leaves orientation, leaves and the branch stack
\* unchanged; nothing but a CreateBranch that returned adds a vertex or an edge.
CreateBranchEffect ==
    /\ JustExecuted("create_branch") =>
         LET newPos == VAdd(hist.pre.turtlePos,
                            VScale(Forward(hist.pre.turtleQuat), hist.args[1]))
             newIndex == Len(hist.pre.vertices)
         IN  /\ vertices = Append(hist.pre.vertices, <<newPos, hist.args[2]>>)
             /\ edges = Append(hist.pre.edges, <<hist.pre.currentVertexIndex, newIndex>>)
             /\ currentVertexIndex = newIndex
             /\ turtlePos = newPos
             /\ turtleQuat = hist.pre.turtleQuat
             /\ leaves = hist.pre.leaves
             /\ turtleQueue = hist.pre.turtleQueue
    /\ (pc \in {"axiom", "eval", "post", "raised"} /\ ~(hist.op = "create_branch" /\ hist.ok)) =>
         /\ vertices = hist.pre.vertices
         /\ edges = hist.pre.edges

\* a branch created in a rotated frame at a vertex restored by a Pop, with a
\* saved state on the branch stack
BranchAtRestoredVertex ==
    /\ JustExecuted("create_branch")
    /\ hist.pre.currentVertexIndex + 1 < currentVertexIndex
    /\ turtleQuat # Quaternion
    /\ Len(turtleQueue) > 0

\* the activations that exist before and after a step keep their rule and
\* their bindings
CallerCtxKept ==
    \A i \in 1..Len(stack) :
        i <= Len(stack') => /\ stack'[i].rule = stack[i].rule
                            /\ stack'[i].ctx = stack[i].ctx

\* the bindings of the activation a rule call has just created
CalleeCtxFromCaller ==
    (JustExecuted("rule_call_inst") /\ NoiseCount(hist.inst) = 0) =>
        LET call == hist.inst.children[1]
            names == rules(prog)[call.children[1]][1]
        IN  /\ Len(stack) = hist.pre.depth + 1
            /\ DOMAIN top.ctx = {names[k] : k \in 1..Len(names)}
            /\ \A k \in 1..Len(names) :
                  top.ctx[names[k]] = evalSum(call.children[k + 1], hist.pre.ctx, <<>>).v
            /\ stack[hist.pre.depth].ctx = hist.pre.ctx

\* C14: in a rule call every argument is evaluated against the caller's
\* context, whichever parameters of the callee are bound already, also when
\* caller and callee share parameter names; the caller's context is the same
\* after the call as before it.
ArgumentsSeeCallerCtx ==
    /\ [][CallerCtxKept]_vars
    /\ []CalleeCtxFromCaller

\* caller(2, 1) has called f(d-1, d) after f(w, d) returned: f's d is 1 and
\* its w is the caller's d
SwappedArgumentsBound ==
    /\ JustExecuted("rule_call_inst")
    /\ prog.axiom = "swap"
    /\ hist.inst = RuleCallInst("f", <<Tree("sub", <<Var("d"), Number("1")>>), Var("d")>>)
    /\ hist.pre.ctx["d"] = float("2")
    /\ top.ctx["d"] = float("1")
    /\ top.ctx["w"] = float("2")
    /\ Len(vertices) = 2

\* what a step of the evaluation does to the branch stack, whatever rule
\* activations the step enters or returns from
BranchStackStep ==
    pc = "eval" =>
        turtleQueue' =
            CASE inst.data = "push_inst" ->
                     Append(turtleQueue, <<currentVertexIndex, turtlePos, turtleQuat>>)
              [] inst.data = "pop_inst" /\ Len(turtleQueue) > 0 ->
                     SubSeq(turtleQueue, 1, Len(turtleQueue) - 1)
              [] OTHER -> turtleQueue

\* a Pop restores what the most recent unmatched Push saw and keeps the output
PopRestoresMatchingPush ==
    JustExecuted("pop_inst") =>
        /\ hist.matched # NoPushed
        /\ turtlePos = hist.matched.turtlePos
        /\ turtleQuat = hist.matched.turtleQuat
        /\ currentVertexIndex = hist.matched.currentVertexIndex
        /\ Len(turtleQueue) = Len(hist.open)
        /\ vertices = hist.pre.vertices
        /\ edges = hist.pre.edges
        /\ leaves = hist.pre.leaves

\* C15: the branch stack is independent of the rule-call stack: entering or
\* returning from a rule call does not change it, and a Pop restores position,
\* orientation and currentVertexIndex to the values saved by the most recent
\* unmatched Push, also when that Push was executed by another rule
\* activation; the vertices, edges and leaves created in between are kept.
BranchStackIndependent ==
    /\ [][BranchStackStep]_vars
    /\ []PopRestoresMatchingPush

\* spaninner() has popped the state spanouter() pushed, after a vertex, a
\* rotation, the call and a balanced Push/Pop pair with a vertex of its own
PopAcrossActivations ==
    /\ JustExecuted("pop_inst")
    /\ prog.axiom = "span"
    /\ hist.op2 = "pop_inst"
    /\ hist.matched.depth < hist.pre.depth
    /\ hist.matched.vertices + 2 = Len(vertices)
    /\ hist.pre.turtleQuat # turtleQuat
    /\ hist.pre.turtlePos # turtlePos
    /\ currentVertexIndex = 0

\* the rule call executed last, the axiom being the first; the context it was
\* executed in
CallExecuted == hist.n = 0 \/ hist.op = "rule_call_inst"
LastCall == IF hist.n = 0 THEN axiom(prog) ELSE hist.inst.children[1]
LastCallCtx == IF hist.n = 0 THEN EmptyDict ELSE hist.pre.ctx

\* the call failed at once: nothing of a body was executed
FailedAtCall(e) ==
    /\ pc = "raised"
    /\ exc = e
    /\ stack = <<>>
    /\ ~meshed
    /\ TurtleAsBefore

\* the checks of a call in their order: lookup, arity, arguments
CallCheckOrder ==
    (CallExecuted /\ pc \in {"eval", "post", "raised"} /\ NoiseCount(LastCall) = 0) =>
        LET name == LastCall.children[1]
            nArgs == Len(LastCall.children) - 1
            unbound == \E k \in 1..nArgs :
                           ~(FreeVars(LastCall.children[k + 1]) \subseteq DOMAIN LastCallCtx)
        IN  IF name \notin DOMAIN rules(prog) THEN FailedAtCall(KeyError)
            ELSE IF Len(rules(prog)[name][1]) # nArgs THEN FailedAtCall(WrongNumberOfArguments)
            ELSE IF unbound THEN FailedAtCall(VariableNotDefined)
            ELSE pc # "raised"

\* the lookup fails only for a call that is executed
UnknownRuleOnlyWhenExecuted ==
    /\ exc = KeyError =>
          /\ pc = "raised"
          /\ CallExecuted
          /\ LastCall.children[1] \notin DOMAIN rules(prog)
    /\ prog.axiom = "nottaken" => exc = "none"

\* C16: the call of a rule name absent from the rule table fails only when the
\* call is executed (a call in a Conditional branch that is not taken raises
\* nothing); a call checks the rule name first, then the number of arguments,
\* then evaluates the arguments, and no instruction of a body is executed when
\* one of these fails.
CallChecksInOrder == CallCheckOrder /\ UnknownRuleOnlyWhenExecuted

\* keyfirst() called nosuch(x), x unbound, after creating a vertex
UnknownRuleBeforeUnbound ==
    /\ prog.axiom = "keyfirst"
    /\ pc = "raised"
    /\ exc = KeyError
    /\ hist.op = "rule_call_inst"
    /\ hist.inst = RuleCallInst("nosuch", <<Var("x")>>)
    /\ Len(vertices) = 2

VertexIndices == 0..(Len(vertices) - 1)

\* C17: from the start of exec on, the output graph is a tree rooted at the
\* sentinel vertex 0: there is one edge less than vertices, the k-th edge
\* (counted from 0) ends at vertex k + 1 and starts at a vertex <= k, every
\* vertex but the sentinel is the target of exactly one edge, and
\* currentVertexIndex and every vertex index saved on the branch stack are
\* indices of vertices.
TreeRootedAtSentinel ==
    pc # "idle" =>
        /\ Len(edges) = Len(vertices) - 1
        /\ \A k \in 0..(Len(edges) - 1) :
              /\ edges[k + 1][2] = k + 1
              /\ edges[k + 1][1] \in 0..k
        /\ \A v \in VertexIndices \ {0} :
              Cardinality({k \in 1..Len(edges) : edges[k][2] = v}) = 1
        /\ currentVertexIndex \in VertexIndices
        /\ \A i \in 1..Len(turtleQueue) : turtleQueue[i][1] \in VertexIndices

\* a tree that forks, during the evaluation, the branch stack holding a vertex
\* other than the sentinel
ForkedTreeInEvaluation ==
    /\ pc = "eval"
    /\ Len(edges) >= 3
    /\ \E k \in 1..Len(edges) : edges[k][1] + 1 < edges[k][2]
    /\ \E i \in 1..Len(turtleQueue) : turtleQueue[i][1] > 0

IsPrefix(s, t) == Len(s) <= Len(t) /\ SubSeq(t, 1, Len(s)) = s

\* a step of the evaluation of the axiom: the call of the axiom or one
\* instruction
AppendOnlyStep ==
    pc \in {"axiom", "eval"} =>
        /\ IsPrefix(vertices, vertices')
        /\ IsPrefix(edges, edges')
        /\ IsPrefix(leaves, leaves')
        /\ (pc = "eval" /\ inst.data \in {"pitch_inst", "roll_inst", "push_inst", "pop_inst"}) =>
              /\ vertices' = vertices
              /\ edges' = edges
              /\ leaves' = leaves
        /\ (pc = "eval" /\ inst.data \in {"pitch_inst", "roll_inst"}) =>
              /\ turtlePos' = turtlePos
              /\ currentVertexIndex' = currentVertexIndex
              /\ turtleQueue' = turtleQueue

\* C18: during the evaluation of the axiom vertices, edges and leaves are
\* append-only: no step removes or changes an entry; Pitch, Roll, Push and Pop
\* leave the three lists unchanged, and Pitch and Roll leave position,
\* currentVertexIndex and the branch stack unchanged as well.
OutputAppendOnly == [][AppendOnlyStep]_vars

\* a Pop took the turtle back behind a vertex created after the Push, the
\* output holding vertices and a leaf, and a rotation before it changed
\* nothing but the orientation
PopKeptLaterVertex ==
    /\ JustExecuted("pop_inst")
    /\ currentVertexIndex < Len(vertices) - 1
    /\ Len(leaves) > 0
    /\ vertices = hist.pre.vertices
    /\ hist.op2 \in {"pitch_inst", "roll_inst"}
    /\ hist.pre.turtleQuat # hist.pre2.turtleQuat
    /\ hist.pre.turtlePos = hist.pre2.turtlePos

\* the nesting of rule activations is bounded by the counter: a branch
\* activation called from a branch activation has a counter one less than its
\* caller's, which is positive
NestingBounded ==
    /\ Len(stack) <= prog.d + 1
    /\ \A i \in 1..(Len(stack) - 1) :
          (stack[i].rule = "branch" /\ stack[i + 1].rule = "branch") =>
              /\ stack[i].ctx["d"] > 0
              /\ stack[i + 1].ctx["d"] = stack[i].ctx["d"] - One

\* the evaluation of the axiom, once started, comes to its end: it returns
\* to exec or an exception leaves it
EvaluationEnds == (pc = "axiom") ~> (pc \in {"post", "raised"})

\* C19: the evaluation of the axiom terminates, normally or with an error,
\* for programs whose rule-call graph is acyclic and for programs that recurse
\* only inside `if d > 0` with the counter passed as d - 1: the nesting of
\* activations stays bounded by the counter and the evaluation reaches its end
\* after finitely many instructions.
EvaluationTerminates == []NestingBounded /\ EvaluationEnds

\* main(2, l) has returned after branch recursed down to the counter 0, where
\* the else body created the leaf
RecursionReturned ==
    /\ pc = "post"
    /\ prog.axiom = "main"
    /\ prog.d = 2
    /\ prog.body = <<7>>
    /\ Len(edges) = 1
    /\ Len(leaves) = 1
    /\ hist.op = "roll_inst"
=============================================================================
